---- MODULE Spec2Model ----
(***************************************************************************)
(* A model of osc-mqtt-bridge: the relay engine (relay source file,        *)
(* src/unnamed/part_002), the configuration validator (src/config.go) and  *)
(* the process entry point (src/main.go).                                  *)
(*                                                                         *)
(* Three specifications share the module:                                  *)
(*   Spec        one relay at run time: Start, the server goroutine, the   *)
(*               broker callback MqttOnEvent, the subscription tickers and *)
(*               the OSC dispatcher;                                       *)
(*   SpecConfig  main(): ReadConfig over a list of relays, then Start of   *)
(*               each relay in order;                                      *)
(*   SpecCodec   the bundle codec makeBundle / MakeOSCBundle as pure       *)
(*               functions applied to bounded inputs.                      *)
(*                                                                         *)
(* Go strings that the code takes apart (topics, OSC addresses) are        *)
(* sequences of one-character strings; a Go slice is a record that keeps   *)
(* nil apart from empty; 64-bit quantities are kept in 16-bit limbs.       *)
(***************************************************************************)
EXTENDS Integers, Sequences, FiniteSets, TLC

VARIABLES
    r,              \* Spec: the relay's configuration (the exported fields of Relay)
    startPc,        \* Spec: how far Relay.Start has run
    filters,        \* Spec: the outcome of each Subscribe call Start has made, in order
    startLog,       \* Spec: the log lines Start has written
    OscServer,      \* Spec: r.OscServer # nil
    OscServerConn,  \* Spec: r.OscServerConn: "nil" or "open"
    srvPc,          \* Spec: the server goroutine of Start
    proc,           \* Spec: the process: "running", "exited" (log.Fatal) or "panicked"
    ev,             \* Spec: the handler invocation followed, with everything it did so far
    tickers,        \* Spec: the subscription goroutines: "none", "spawned", "ticking"
                    \*       or "panicked"
    statusSent,     \* Spec: what Start's SendStatus published
    loaded,         \* SpecConfig: the relay list as yaml.Unmarshal produced it
    relays,         \* SpecConfig: app.config.Relays
    appPc,          \* SpecConfig: position of main()
    started,        \* SpecConfig: the relays whose Start has been called, in order
    cx,             \* SpecCodec: the codec's input
    cmid,           \* SpecCodec: the result of the first conversion
    cout,           \* SpecCodec: the result of the second conversion
    cpc             \* SpecCodec: "in", "mid" or "done"

vars == <<r, startPc, filters, startLog, OscServer, OscServerConn, srvPc, proc, ev,
          tickers, statusSent, loaded, relays, appPc, started, cx, cmid, cout, cpc>>
relayVars == <<r, startPc, filters, startLog, OscServer, OscServerConn, srvPc, proc, ev,
               tickers, statusSent>>
appVars == <<loaded, relays, appPc, started>>
codecVars == <<cx, cmid, cout, cpc>>

(***************************************************************************)
(* Bounds of the model.                                                    *)
(***************************************************************************)
\* Longest command table (Relay.Commands) drawn in Init.
MaxCmds == 2
\* Longest relay list (Config.Relays) drawn in Init of SpecConfig.
MaxRelays == 2
\* Deepest bundle nesting drawn in Init of SpecCodec.
MaxDepth == 1

(***************************************************************************)
(* Go strings as character sequences.                                      *)
(***************************************************************************)
\* strings.HasPrefix
HasPrefix(s, prefix) ==
    /\ Len(s) >= Len(prefix)
    /\ SubSeq(s, 1, Len(prefix)) = prefix

\* strings.Index: the first position (1-based) where old occurs in s, 0 if none.
StrIndex(s, old) ==
    LET hits == { i \in 1..(Len(s) - Len(old) + 1) :
                     SubSeq(s, i, i + Len(old) - 1) = old }
    IN  IF hits = {} THEN 0
        ELSE CHOOSE i \in hits : \A j \in hits : i <= j

\* strings.Replace(s, old, "", 1): s with the first occurrence of old removed.
ReplaceFirstWithEmpty(s, old) ==
    LET i == StrIndex(s, old)
    IN  IF i = 0 THEN s
        ELSE SubSeq(s, 1, i - 1) \o SubSeq(s, i + Len(old), Len(s))

(***************************************************************************)
(* Go slices: nil and empty are different values of the same length.       *)
(***************************************************************************)
NilSlice == [isnil |-> TRUE, e |-> <<>>]
Slice(s) == [isnil |-> FALSE, e |-> s]
\* append(s, x)
Append1(s, x) == Slice(Append(s.e, x))
\* len(s)
SliceLen(s) == Len(s.e)

(***************************************************************************)
(* Time and OSC timetags.                                                  *)
(*                                                                         *)
(* A time.Time is the instant [q, r, nsec]: Unix seconds q * 2^16 + r with *)
(* 0 <= r < 2^16, and nanoseconds 0 <= nsec < 10^9.  The uint64 of a time  *)
(* tag is [h, l, fq, fr]: high word h * 2^16 + l (seconds since 1900,      *)
(* 32 bits) and low word fq * 10^9 + fr (32 bits).  An osc.Timetag is the  *)
(* struct [time, timeTag] of the go-osc version pinned in src/go.mod: it   *)
(* keeps the time.Time it was made from next to the uint64 computed from   *)
(* it.  The relay reaches these through osc.NewBundle and Timetag.Time.    *)
(***************************************************************************)
Limb == 2^16

\* secondsFrom1900To1970 = 2208988800 = 33706 * 2^16 + 32384
secondsFrom1900To1970 == [q |-> 33706, r |-> 32384]

\* time.Time{}: January 1, year 1, 00:00:00 UTC = Unix -62135596800
ZeroTime == [q |-> -948114, r |-> 2304, nsec |-> 0]
\* 2023-11-14T22:13:20.000000005Z = Unix 1700000000
T2023 == [q |-> 25939, r |-> 61696, nsec |-> 5]
\* 2040-01-01T00:01:40Z = Unix 2208988900, past the 32-bit seconds of a timetag
T2040 == [q |-> 33706, r |-> 32484, nsec |-> 0]

\* timeToTimetag: uint64((secondsFrom1900To1970 + time.Unix()) << 32)
\*                + uint64(uint32(time.Nanosecond()))
timeToTimetag(t) ==
    LET lo == t.r + secondsFrom1900To1970.r
    IN  [h  |-> (t.q + secondsFrom1900To1970.q + lo \div Limb) % Limb,
         l  |-> lo % Limb,
         fq |-> 0,
         fr |-> t.nsec]

\* timetagToTime: time.Unix(int64((timetag>>32) - secondsFrom1900To1970),
\*                          int64(timetag & 0xffffffff))
\* time.Unix carries whole seconds out of the nanosecond argument.
timetagToTime(tt) ==
    LET lo == tt.l - secondsFrom1900To1970.r + tt.fq
    IN  [q    |-> tt.h - secondsFrom1900To1970.q + lo \div Limb,
         r    |-> lo % Limb,
         nsec |-> tt.fr]

\* osc.NewTimetag(timeStamp): the struct keeps the time and its uint64.
NewTimetag(timeStamp) == [time |-> timeStamp, timeTag |-> timeToTimetag(timeStamp)]

\* Timetag.Time(): the time the struct keeps.
Time(timetag) == timetag.time

(***************************************************************************)
(* OSC packets (osc.Packet) and the JSON-aware mirror types.               *)
(***************************************************************************)
NilPacket == [kind |-> "nil"]
\* A Packet implementation that is neither *osc.Message nor *osc.Bundle.
OtherPacket == [kind |-> "other"]

\* osc.NewMessage(addr): Arguments is the nil slice until assigned.
NewMessage(addr) ==
    [kind |-> "message", Address |-> addr, Arguments |-> NilSlice]

\* osc.NewBundle(time): no messages, no bundles.
NewBundle(t) ==
    [kind |-> "bundle", Timetag |-> NewTimetag(t),
     Messages |-> NilSlice, Bundles |-> NilSlice]

\* A nil *OscMessage or *OscBundle inside a decoded OscBundle.
NilPtr == [isNilPtr |-> TRUE]
IsNilPtr(x) == "isNilPtr" \in DOMAIN x

\* The slice a loop of append calls builds from a Go range over s: nil when
\* the range is empty, otherwise the elements in order.
AppendEach(s) == IF s = <<>> THEN NilSlice ELSE Slice(s)

\* OscMessage from *osc.Message (makeBundle, the loop over bundle.Messages).
makeMessage(message) ==
    [Address |-> message.Address, Arguments |-> message.Arguments]

\* *osc.Message from OscMessage (MakeOSCBundle, the loop over bundle.Messages).
MakeOSCMessage(message) ==
    [NewMessage(message.Address) EXCEPT !.Arguments = message.Arguments]

Reverse(s) == [i \in 1..Len(s) |-> s[Len(s) + 1 - i]]

\* makeBundle: an OscBundle from an osc.Bundle.
RECURSIVE makeBundle(_)
makeBundle_Reversed(bundle) ==
    [Timetag  |-> Time(bundle.Timetag),
     Messages |-> AppendEach(Reverse([i \in 1..SliceLen(bundle.Messages) |->
                                 makeMessage(bundle.Messages.e[i])])),
     Bundles  |-> AppendEach([i \in 1..SliceLen(bundle.Bundles) |->
                                 makeBundle(bundle.Bundles.e[i])])]

makeBundle(bundle) ==
    [Timetag  |-> Time(bundle.Timetag),
     Messages |-> AppendEach([i \in 1..SliceLen(bundle.Messages) |->
                                 makeMessage(bundle.Messages.e[i])]),
     Bundles  |-> AppendEach([i \in 1..SliceLen(bundle.Bundles) |->
                                 makeBundle(bundle.Bundles.e[i])])]

\* MakeOSCBundle dereferences every entry of Messages and Bundles: a nil
\* entry at any level is a nil pointer dereference.
RECURSIVE MakeOSCBundlePanics(_)
MakeOSCBundlePanics(bundle) ==
    \/ \E i \in 1..SliceLen(bundle.Messages) : IsNilPtr(bundle.Messages.e[i])
    \/ \E i \in 1..SliceLen(bundle.Bundles) :
          \/ IsNilPtr(bundle.Bundles.e[i])
          \/ MakeOSCBundlePanics(bundle.Bundles.e[i])

\* MakeOSCBundle: an osc.Bundle from an OscBundle (no nil entries).
RECURSIVE MakeOSCBundle(_)
MakeOSCBundle(bundle) ==
    [NewBundle(bundle.Timetag) EXCEPT
        !.Messages = AppendEach([i \in 1..SliceLen(bundle.Messages) |->
                                    MakeOSCMessage(bundle.Messages.e[i])]),
        !.Bundles  = AppendEach([i \in 1..SliceLen(bundle.Bundles) |->
                                    MakeOSCBundle(bundle.Bundles.e[i])])]


(***************************************************************************)
(* Values drawn for the inputs.                                            *)
(***************************************************************************)
\* Go values held in an argument list ([]interface{}), tagged with their
\* dynamic type.
GoString(v) == [t |-> "string", v |-> v]
GoFloat64(v) == [t |-> "float64", v |-> v]
GoFloat32(v) == [t |-> "float32", v |-> v]
GoInt32(v) == [t |-> "int32", v |-> v]
GoBool(v) == [t |-> "bool", v |-> v]
GoNil == [t |-> "nil", v |-> "nil"]
\* A nested []interface{} and a map[string]interface{}.
GoSlice(e) == [t |-> "slice", v |-> "slice", e |-> e]
GoMap(m) == [t |-> "map", v |-> "map", m |-> m]
\* The RFC 3339 text of a time, as a string and as a Go string value.
TimeText(time) == <<"rfc3339", time>>
GoTimeText(time) == [t |-> "string", v |-> "rfc3339", time |-> time]

AddrA == <<"/", "a">>
AddrB == <<"/", "b">>

\* Argument lists of portable and wire messages.
ArgsSD == Slice(<<GoString("s"), GoFloat64("1")>>)
MsgNilArgs == [Address |-> AddrA, Arguments |-> NilSlice]
MsgEmptyArgs == [Address |-> AddrA, Arguments |-> Slice(<<>>)]
MsgTwoArgs == [Address |-> AddrB, Arguments |-> ArgsSD]

PortableMsgLists ==
    {NilSlice, Slice(<<>>), Slice(<<MsgNilArgs>>),
     Slice(<<MsgEmptyArgs, MsgTwoArgs>>), Slice(<<MsgTwoArgs, MsgEmptyArgs>>)}
PortableTimes == {ZeroTime, T2023, T2040}

\* Two bundles without children, the second entries of two-element lists.
PortableLeaves ==
    {[Timetag |-> T2023, Messages |-> NilSlice, Bundles |-> NilSlice],
     [Timetag |-> ZeroTime, Messages |-> Slice(<<MsgEmptyArgs, MsgTwoArgs>>),
      Bundles |-> Slice(<<>>)]}

\* OscBundle values of nesting depth <= d, as json.Unmarshal can build them.
RECURSIVE PortableBundles(_)
PortableKids(d) ==
    { b \in PortableBundles(d) :
         /\ b.Messages \in {NilSlice, Slice(<<MsgEmptyArgs, MsgTwoArgs>>)}
         /\ b.Timetag \in {T2023, ZeroTime} }

PortableBundles(d) ==
    IF d = 0
    THEN [Timetag : PortableTimes, Messages : PortableMsgLists,
          Bundles : {NilSlice, Slice(<<>>)}]
    ELSE PortableBundles(d - 1)
         \cup { [Timetag |-> t, Messages |-> ms, Bundles |-> Slice(<<c>>)] :
                   t \in PortableTimes, ms \in PortableMsgLists,
                   c \in PortableKids(d - 1) }
         \cup { [Timetag |-> t, Messages |-> ms, Bundles |-> Slice(<<c1, c2>>)] :
                   t \in PortableTimes, ms \in PortableMsgLists,
                   c1 \in PortableKids(d - 1), c2 \in PortableLeaves }

\* Timetags as they stand on the wire: "immediately" (the value 1), a tag of
\* 2023 whose fraction field exceeds 10^9, and the last second of the era.
RawTimetags ==
    {[h |-> 0, l |-> 0, fq |-> 0, fr |-> 1],
     [h |-> 59646, l |-> 28544, fq |-> 2, fr |-> 5],
     [h |-> Limb - 1, l |-> Limb - 1, fq |-> 0, fr |-> 7]}

\* The osc.Timetag of a parsed bundle: the packet reader builds the bundle
\* with NewBundle(timetagToTime(raw)).
WireTimetags == { NewTimetag(timetagToTime(raw)) : raw \in RawTimetags }

WireMsg(m) == [kind |-> "message", Address |-> m.Address, Arguments |-> m.Arguments]
\* Bundle.Append builds the lists: nil, or non-empty.
WireMsgLists ==
    {NilSlice, Slice(<<WireMsg(MsgNilArgs)>>),
     Slice(<<WireMsg(MsgEmptyArgs), WireMsg(MsgTwoArgs)>>),
     Slice(<<WireMsg(MsgTwoArgs), WireMsg(MsgEmptyArgs)>>)}

\* Two bundles without children, the second entries of two-element lists.
WireLeaves ==
    { [kind |-> "bundle", Timetag |-> NewTimetag(timetagToTime(raw)),
       Messages |-> ms, Bundles |-> NilSlice] :
         raw \in {[h |-> 0, l |-> 0, fq |-> 0, fr |-> 1]},
         ms \in {NilSlice, Slice(<<WireMsg(MsgTwoArgs), WireMsg(MsgEmptyArgs)>>)} }

\* osc.Bundle values of nesting depth <= d, as the packet reader builds them.
RECURSIVE WireBundles(_)
WireKids(d) ==
    { b \in WireBundles(d) :
         b.Messages \in {NilSlice, Slice(<<WireMsg(MsgEmptyArgs), WireMsg(MsgTwoArgs)>>)} }

WireBundles(d) ==
    IF d = 0
    THEN [kind : {"bundle"}, Timetag : WireTimetags, Messages : WireMsgLists,
          Bundles : {NilSlice}]
    ELSE WireBundles(d - 1)
         \cup { [kind |-> "bundle", Timetag |-> t, Messages |-> ms,
                 Bundles |-> Slice(<<c>>)] :
                   t \in WireTimetags, ms \in WireMsgLists, c \in WireKids(d - 1) }
         \cup { [kind |-> "bundle", Timetag |-> t, Messages |-> ms,
                 Bundles |-> Slice(<<c1, c2>>)] :
                   t \in WireTimetags, ms \in WireMsgLists,
                   c1 \in WireKids(d - 1), c2 \in WireLeaves }

(***************************************************************************)
(* Log levels.                                                             *)
(***************************************************************************)
ErrorLog == 0
ReceiveLog == 1
SendLog == 2
DebugLog == 3

\* Log: the line is printed when level <= r.LogLevel.
LogLine(level, msg) == [level |-> level, msg |-> msg]
Log(level, msg) ==
    IF level <= r.LogLevel THEN <<LogLine(level, msg)>> ELSE <<>>

(***************************************************************************)
(* JSON documents and broker payloads.                                     *)
(*                                                                         *)
(* A payload is a byte string: empty, not JSON at all ("garbage"), or a    *)
(* JSON document.  A document is a tree; encoding/json's Marshal and       *)
(* Unmarshal are modelled by what they do to the Go values: nil slices     *)
(* encode as null, numbers decode as float64, a NaN float does not encode, *)
(* a document of the wrong shape does not decode.                          *)
(***************************************************************************)
JNull == [j |-> "null"]
JAbsent == [j |-> "absent"]
JBool(x) == [j |-> "bool", b |-> x]
JStr(x) == [j |-> "string", s |-> x]
JNum(x) == [j |-> "number", n |-> x]
\* A JSON string that holds the RFC 3339 text of the time t.
JTime(t) == [j |-> "time", t |-> t]
JArr(items) == [j |-> "array", items |-> items]
\* A JSON object is a record of its keys beside j.
JMsg(address, arguments) ==
    [j |-> "object", address |-> JStr(address), arguments |-> arguments]
JBundle(timetag, messages, bundles) ==
    [j |-> "object", timetag |-> timetag, messages |-> messages, bundles |-> bundles]

EmptyPayload == [bytes |-> "empty"]
GarbagePayload == [bytes |-> "garbage"]
JsonPayload(doc) == [bytes |-> "json", doc |-> doc]
\* len(message.Payload()) != 0
PayloadNonEmpty(payload) == payload.bytes # "empty"

Ok(v) == [err |-> FALSE, val |-> v]
Err == [err |-> TRUE, val |-> NilSlice]

\* json.Marshal of one argument value: a NaN does not encode, nor does a
\* slice or a map that holds one.
RECURSIVE JsonMarshalValue(_)
JsonMarshalValue(x) ==
    IF x.t = "string"
    THEN IF "time" \in DOMAIN x THEN Ok(JTime(x.time)) ELSE Ok(JStr(x.v))
    ELSE IF x.t = "nil" THEN Ok(JNull)
    ELSE IF x.t = "bool" THEN Ok(JBool(x.v))
    ELSE IF x.t = "slice"
    THEN IF \E i \in 1..Len(x.e) : JsonMarshalValue(x.e[i]).err THEN Err
         ELSE Ok(JArr([i \in 1..Len(x.e) |-> JsonMarshalValue(x.e[i]).val]))
    ELSE IF x.t = "map"
    THEN IF \E k \in DOMAIN x.m : JsonMarshalValue(x.m[k]).err THEN Err
         ELSE Ok([k \in DOMAIN x.m \cup {"j"} |->
                     IF k = "j" THEN "object" ELSE JsonMarshalValue(x.m[k]).val])
    ELSE IF x.v = "NaN" THEN Err
    ELSE Ok(JNum(x.v))

\* json.Marshal(arguments) for a []interface{}.
JsonMarshalArgs(args) ==
    IF args.isnil THEN Ok(JNull)
    ELSE IF \E i \in 1..Len(args.e) : JsonMarshalValue(args.e[i]).err THEN Err
    ELSE Ok(JArr([i \in 1..Len(args.e) |-> JsonMarshalValue(args.e[i]).val]))

\* json.Marshal(b) for an *OscBundle.
RECURSIVE JsonMarshalBundle(_)
JsonMarshalBundle(b) ==
    LET msgs == [i \in 1..SliceLen(b.Messages) |->
                    JsonMarshalArgs(b.Messages.e[i].Arguments)]
        subs == [i \in 1..SliceLen(b.Bundles) |-> JsonMarshalBundle(b.Bundles.e[i])]
    IN  IF \/ \E i \in 1..Len(msgs) : msgs[i].err
           \/ \E i \in 1..Len(subs) : subs[i].err
        THEN Err
        ELSE Ok(JBundle(
                JTime(b.Timetag),
                IF b.Messages.isnil THEN JNull
                ELSE JArr([i \in 1..Len(msgs) |->
                              JMsg(b.Messages.e[i].Address, msgs[i].val)]),
                IF b.Bundles.isnil THEN JNull
                ELSE JArr([i \in 1..Len(subs) |-> subs[i].val])))

\* The keys of a JSON object, and the value under a key ("absent" when the
\* object has no such key).
Keys(d) == DOMAIN d \ {"j"}
Field(d, k) == IF k \in DOMAIN d THEN d[k] ELSE JAbsent

\* The Go value json.Unmarshal stores in an interface{} for the document:
\* string, float64, bool, nil, []interface{} or map[string]interface{}.
RECURSIVE JsonUnmarshalValue(_)
JsonUnmarshalValue(doc) ==
    IF doc.j = "string" THEN GoString(doc.s)
    ELSE IF doc.j = "time" THEN GoTimeText(doc.t)
    ELSE IF doc.j = "number" THEN GoFloat64(doc.n)
    ELSE IF doc.j = "bool" THEN GoBool(doc.b)
    ELSE IF doc.j = "array"
    THEN GoSlice([i \in 1..Len(doc.items) |-> JsonUnmarshalValue(doc.items[i])])
    ELSE IF doc.j = "object"
    THEN GoMap([k \in Keys(doc) |-> JsonUnmarshalValue(doc[k])])
    ELSE GoNil

\* json.Unmarshal(payload, &arguments) with arguments a nil []interface{}.
JsonUnmarshalArgs(payload) ==
    IF payload.bytes # "json" THEN Err
    ELSE IF payload.doc.j = "null" THEN Ok(NilSlice)
    ELSE IF payload.doc.j = "array"
         THEN Ok(Slice([i \in 1..Len(payload.doc.items) |->
                          JsonUnmarshalValue(payload.doc.items[i])]))
    ELSE Err

\* Whether json.Unmarshal accepts the document for a field of the type: null
\* and an absent key leave the field alone, a value of another JSON type is
\* an UnmarshalTypeError (for time.Time: not a string, or not RFC 3339).
TimeDecodes(d) == d.j \in {"absent", "null", "time"}
StringDecodes(d) == d.j \in {"absent", "null", "string", "time"}
ArgsDecodes(d) == d.j \in {"absent", "null", "array"}

\* An entry of "messages": null or an object for an OscMessage.
MessageDecodes(d) ==
    \/ d.j = "null"
    \/ /\ d.j = "object"
       /\ StringDecodes(Field(d, "address"))
       /\ ArgsDecodes(Field(d, "arguments"))

\* A document for an OscBundle (not null): an object whose known keys hold
\* values of their types; unknown keys are ignored.
RECURSIVE BundleDecodes(_)
BundleDecodes(d) ==
    /\ d.j = "object"
    /\ TimeDecodes(Field(d, "timetag"))
    /\ LET m == Field(d, "messages")
       IN  \/ m.j \in {"absent", "null"}
           \/ m.j = "array" /\ \A i \in 1..Len(m.items) : MessageDecodes(m.items[i])
    /\ LET b == Field(d, "bundles")
       IN  \/ b.j \in {"absent", "null"}
           \/ /\ b.j = "array"
              /\ \A i \in 1..Len(b.items) :
                    b.items[i].j = "null" \/ BundleDecodes(b.items[i])

\* The string stored in OscMessage.Address for the document d.
JsonAddressField(d) ==
    IF d.j = "string" THEN d.s
    ELSE IF d.j = "time" THEN TimeText(d.t)
    ELSE <<>>

\* The []interface{} stored in OscMessage.Arguments for the document d.
JsonArgsField(d) ==
    IF d.j = "array"
    THEN Slice([i \in 1..Len(d.items) |-> JsonUnmarshalValue(d.items[i])])
    ELSE NilSlice

\* The *OscBundle json.Unmarshal builds from a bundle document that decodes:
\* an absent or null field keeps its zero value, a null array entry is a nil
\* pointer.
RECURSIVE JsonBundleValue(_)
JsonBundleValue(d) ==
    LET t == Field(d, "timetag")
        m == Field(d, "messages")
        b == Field(d, "bundles")
    IN  [Timetag  |-> IF t.j = "time" THEN t.t ELSE ZeroTime,
         Messages |-> IF m.j = "array"
                      THEN Slice([i \in 1..Len(m.items) |->
                             IF m.items[i].j = "null" THEN NilPtr
                             ELSE [Address   |-> JsonAddressField(Field(m.items[i], "address")),
                                   Arguments |-> JsonArgsField(Field(m.items[i], "arguments"))]])
                      ELSE NilSlice,
         Bundles  |-> IF b.j = "array"
                      THEN Slice([i \in 1..Len(b.items) |->
                             IF b.items[i].j = "null" THEN NilPtr
                             ELSE JsonBundleValue(b.items[i])])
                      ELSE NilSlice]

ZeroBundle == [Timetag |-> ZeroTime, Messages |-> NilSlice, Bundles |-> NilSlice]

\* json.Unmarshal(payload, bundle) with bundle a new(OscBundle).
JsonUnmarshalBundle(payload) ==
    IF payload.bytes # "json" THEN Err
    ELSE IF payload.doc.j = "null" THEN Ok(ZeroBundle)
    ELSE IF BundleDecodes(payload.doc) THEN Ok(JsonBundleValue(payload.doc))
    ELSE Err

(***************************************************************************)
(* The relay's topics.                                                     *)
(***************************************************************************)
Slash == <<"/">>
SendSuffix == <<"/", "s", "e", "n", "d">>
BundleSuffix == <<"/", "b", "u", "n", "d", "l", "e">>
StatusSuffix == <<"/", "s", "t", "a", "t", "u", "s">>
CheckSuffix == <<"/", "c", "h", "e", "c", "k">>
CmdSuffix == <<"/", "c", "m", "d">>

SendTopic == r.MqttTopic \o SendSuffix
BundleSendTopic == r.MqttTopic \o BundleSuffix \o SendSuffix
StatusCheckTopic == r.MqttTopic \o StatusSuffix \o CheckSuffix

\* A topic filter: one topic, or a topic and everything below it (<topic>/#).
FilterExact(topic) == [kind |-> "exact", topic |-> topic]
FilterBelow(topic) == [kind |-> "below", topic |-> topic]

\* Lines 412-419: the filters of the commands from command i on, the
\* absolute topic of a command before its sub topic.
RECURSIVE CommandFilters(_)
CommandFilters(i) ==
    IF i > Len(r.Commands) THEN <<>>
    ELSE (IF r.Commands[i].MqttTopic # <<>>
          THEN <<FilterExact(r.Commands[i].MqttTopic)>> ELSE <<>>)
         \o (IF r.Commands[i].MqttSubTopic # <<>>
             THEN <<FilterExact(r.MqttTopic \o Slash \o r.Commands[i].MqttSubTopic)>>
             ELSE <<>>)
         \o CommandFilters(i + 1)

\* Lines 408-419: the filters Start subscribes to, in the order of its
\* MqttSubscribe calls.
StartFilters ==
    <<FilterBelow(SendTopic), FilterExact(BundleSendTopic),
      FilterExact(StatusCheckTopic)>> \o CommandFilters(1)

FilterMatches(f, topic) ==
    IF f.kind = "below"
    THEN topic = f.topic \/ HasPrefix(topic, f.topic \o Slash)
    ELSE topic = f.topic

\* The broker delivers a message only on a topic that a filter subscribed
\* so far matches; a Subscribe call that failed subscribed nothing.
Subscribed(topic) ==
    \E f \in 1..Len(filters) :
        filters[f] = "ok" /\ FilterMatches(StartFilters[f], topic)

(***************************************************************************)
(* OscSend.                                                                *)
(*                                                                         *)
(* env names the one operation the environment makes fail in this handler  *)
(* invocation: env.fail is "none", "resolve" (net.ResolveUDPAddr),         *)
(* "marshal" (packet.MarshalBinary), "dial" (net.DialUDP) or "write" (the  *)
(* datagram write), and env.at is the OscSend call (1st, 2nd, ...) it      *)
(* strikes.                                                                *)
(***************************************************************************)
Fails(env, k, what) == env.fail = what /\ env.at = k

SendResult(ret, via, wrote, failed, panicked, logs) ==
    [ret |-> ret, via |-> via, wrote |-> wrote, failed |-> failed,
     panicked |-> panicked, logs |-> logs]

\* Lines 228-241 in client-only mode: dial, write, close.  conn and err are
\* declared anew by := inside the else block, so the write's error is
\* assigned to the inner err and the function returns the outer one.
OscSendDial(env, k, logs) ==
    IF Fails(env, k, "dial")
    THEN SendResult("dial", "none", FALSE, "dial", FALSE, logs)
    ELSE IF Fails(env, k, "write")
    THEN SendResult("nil", "dial", FALSE, "write", FALSE, logs)
    ELSE SendResult("nil", "dial", TRUE, "none", FALSE, logs)

\* Lines 228-230 with r.OscServer != nil: WriteTo on r.OscServerConn, a nil
\* interface until the server goroutine has stored the listening socket.
OscSendServer(env, k, logs) ==
    IF OscServerConn = "nil"
    THEN SendResult("nil", "none", FALSE, "none", TRUE, logs)
    ELSE IF Fails(env, k, "write")
    THEN SendResult("write", "server", FALSE, "write", FALSE, logs)
    ELSE SendResult("nil", "server", TRUE, "none", FALSE, logs)

\* packet.MarshalBinary() (line 222) returns an error for an argument of a
\* type OSC has no tag for: of the values JSON decoding produces, a nested
\* []interface{} and a map.
RECURSIVE MarshalBinaryFails(_)
MarshalBinaryFails(packet) ==
    IF packet.kind = "message"
    THEN \E i \in 1..SliceLen(packet.Arguments) :
            packet.Arguments.e[i].t \in {"slice", "map"}
    ELSE IF packet.kind = "bundle"
    THEN \/ \E i \in 1..SliceLen(packet.Messages) :
               MarshalBinaryFails(packet.Messages.e[i])
         \/ \E i \in 1..SliceLen(packet.Bundles) :
               MarshalBinaryFails(packet.Bundles.e[i])
    ELSE FALSE

\* OscSend(packet), the k-th call of the running handler.
OscSend(packet, k, env) ==
    IF packet = NilPacket
    THEN SendResult("nil", "none", FALSE, "none", FALSE, <<>>)
    ELSE
    LET l1 == IF packet.kind = "message" THEN Log(SendLog, "-> [OSC] message")
              ELSE IF packet.kind = "bundle" THEN Log(SendLog, "-> [OSC] Bundle")
              ELSE <<>>
        l2 == l1 \o (IF r.LogLevel >= DebugLog THEN Log(DebugLog, "-> [OSC] Binary")
                     ELSE <<>>)
    IN  IF Fails(env, k, "resolve")
        THEN SendResult("resolve", "none", FALSE, "resolve", FALSE, l1)
        ELSE IF Fails(env, k, "marshal") \/ MarshalBinaryFails(packet)
        THEN SendResult("marshal", "none", FALSE, "marshal", FALSE, l1)
        ELSE IF OscServer
        THEN OscSendServer(env, k, l2)
        ELSE OscSendDial(env, k, l2)


(***************************************************************************)
(* What one handler invocation does: the OscSend calls it makes, the       *)
(* broker publishes, the log lines, and how it ends.                       *)
(***************************************************************************)
Acc0 ==
    [sends |-> <<>>, pubs |-> <<>>, logs |-> <<>>, n |-> 0,
     done |-> FALSE, panicked |-> FALSE]

\* err := r.OscSend(packet); if err != nil { r.Log(ErrorLog, "Send Error: %s", err) }
\* src and idx say which branch of which handler made the call.
CallOscSend(acc, src, idx, packet, env) ==
    LET res == OscSend(packet, acc.n + 1, env)
    IN  [acc EXCEPT
           !.sends = Append(@, [src |-> src, idx |-> idx, pkt |-> packet,
                                ret |-> res.ret, via |-> res.via,
                                wrote |-> res.wrote, failed |-> res.failed,
                                panicked |-> res.panicked]),
           !.n = @ + 1,
           !.logs = @ \o res.logs
                      \o (IF ~res.panicked /\ res.ret # "nil"
                          THEN Log(ErrorLog, "Send Error") ELSE <<>>),
           !.panicked = res.panicked,
           !.done = @ \/ res.panicked]

\* client.Publish(topic, 0, true, data)
Publish(acc, topic, data) ==
    [acc EXCEPT !.pubs = Append(@, [topic |-> topic, qos |-> 0,
                                    retained |-> TRUE, data |-> data])]

AddLog(acc, lines) == [acc EXCEPT !.logs = @ \o lines]
Return(acc) == [acc EXCEPT !.done = TRUE]

(***************************************************************************)
(* MqttOnEvent.                                                            *)
(***************************************************************************)
\* Lines 288-289: the command's absolute topic or <topic>/<sub topic>.
CommandMatches(cmd, topic) ==
    \/ topic = cmd.MqttTopic
    \/ /\ cmd.MqttSubTopic # <<>>
       /\ topic = r.MqttTopic \o Slash \o cmd.MqttSubTopic

\* Lines 294-303: the arguments of a command's message.
SelectArguments_IgnoreDisallow(cmd, payload) ==
    IF PayloadNonEmpty(payload)
    THEN JsonUnmarshalArgs(payload)
    ELSE IF SliceLen(cmd.DefaultPayload) # 0 THEN Ok(cmd.DefaultPayload)
    ELSE Ok(NilSlice)

SelectArguments(cmd, payload) ==
    IF ~cmd.DisallowPayload /\ PayloadNonEmpty(payload)
    THEN JsonUnmarshalArgs(payload)
    ELSE IF SliceLen(cmd.DefaultPayload) # 0 THEN Ok(cmd.DefaultPayload)
    ELSE Ok(NilSlice)

\* Lines 287-312, one iteration of the loop over r.Commands.
CommandStep(acc, i, topic, payload, env) ==
    LET cmd == r.Commands[i]
        arguments == SelectArguments(cmd, payload)
    IN  IF ~CommandMatches(cmd, topic) THEN acc
        ELSE IF arguments.err
        THEN Return(AddLog(acc, Log(ErrorLog, "Json Error")))
        ELSE CallOscSend(acc, "command", i,
                 [NewMessage(cmd.Command) EXCEPT !.Arguments = arguments.val], env)

\* json.Marshal(&r): the fields of the Relay that carry a json name; the
\* client, server and socket fields are tagged "-".  It fails when a default
\* payload or a subscription payload holds a value JSON cannot encode.
JsonMarshalRelay(relay) ==
    IF \/ \E i \in 1..Len(relay.Commands) :
              JsonMarshalArgs(relay.Commands[i].DefaultPayload).err
       \/ \E i \in 1..Len(relay.OscSubscriptions) :
              JsonMarshalArgs(relay.OscSubscriptions[i].Payload).err
    THEN Err
    ELSE Ok([j |-> "object", config |-> relay])

\* Lines 246-261: a Marshal error is logged and the publish still happens,
\* with the nil bytes.
SendStatus(acc) ==
    IF r.MqttDisableConfigSend THEN acc
    ELSE LET config == JsonMarshalRelay(r)
             a0 == IF config.err THEN AddLog(acc, Log(ErrorLog, "Json Error"))
                   ELSE acc
         IN  Publish(a0, r.MqttTopic \o StatusSuffix, config.val)

\* Lines 315-346: the standard send topic.
SendBranch_Never(acc, topic, payload, env) ==
    acc

SendBranch_NoGate(acc, topic, payload, env) ==
    LET stripped == ReplaceFirstWithEmpty(topic, SendTopic)
        cmd == IF stripped = <<>> THEN Slash ELSE stripped
        arguments == IF PayloadNonEmpty(payload) THEN JsonUnmarshalArgs(payload)
                     ELSE Ok(NilSlice)
    IN  IF arguments.err
        THEN Return(AddLog(acc, Log(ErrorLog, "Json Error")))
        ELSE CallOscSend(acc, "send", 0,
                 [NewMessage(cmd) EXCEPT !.Arguments = arguments.val], env)

SendBranch(acc, topic, payload, env) ==
    IF r.OscDisallowArbritaryCommand
    THEN Return(AddLog(acc, Log(ErrorLog, "Arbritary commands are disabled on this relay.")))
    ELSE
    LET stripped == ReplaceFirstWithEmpty(topic, SendTopic)
        cmd == IF stripped = <<>> THEN Slash ELSE stripped
        arguments == IF PayloadNonEmpty(payload) THEN JsonUnmarshalArgs(payload)
                     ELSE Ok(NilSlice)
    IN  IF arguments.err
        THEN Return(AddLog(acc, Log(ErrorLog, "Json Error")))
        ELSE CallOscSend(acc, "send", 0,
                 [NewMessage(cmd) EXCEPT !.Arguments = arguments.val], env)

\* Lines 347-369: the bundle send topic.
BundleBranch(acc, topic, payload, env) ==
    IF r.OscDisallowArbritaryCommand
    THEN Return(AddLog(acc, Log(ErrorLog, "Arbritary commands are disabled on this relay.")))
    ELSE
    LET bundle == JsonUnmarshalBundle(payload)
    IN  IF bundle.err
        THEN Return(AddLog(acc, Log(ErrorLog, "Json Error")))
        ELSE IF MakeOSCBundlePanics(bundle.val)
        THEN [acc EXCEPT !.panicked = TRUE, !.done = TRUE]
        ELSE CallOscSend(acc, "bundle", 0, MakeOSCBundle(bundle.val), env)

\* Lines 314-372: the branches after the loop over the commands.
Route(acc, topic, payload, env) ==
    IF HasPrefix(topic, SendTopic) THEN SendBranch(acc, topic, payload, env)
    ELSE IF topic = BundleSendTopic THEN BundleBranch(acc, topic, payload, env)
    ELSE IF topic = StatusCheckTopic THEN SendStatus(acc)
    ELSE acc

\* How far a handler invocation has run: what it did so far, the command the
\* loop of line 287 examines next, and whether the handler has ended (by
\* returning or by panicking).
Progress(acc, next, ended) == [acc |-> acc, next |-> next, ended |-> ended]

\* Lines 287-372 from command i on, up to and including the next OscSend
\* call, or to the end of the handler when no further call is made.  OscSend
\* reads r.OscServer and r.OscServerConn, which Start and the server
\* goroutine write meanwhile: every call sees the values of its own moment.
RECURSIVE MqttOnEventFrom(_, _, _, _, _)
MqttOnEventFrom(i, acc, topic, payload, env) ==
    IF i > Len(r.Commands)
    THEN Progress(Route(acc, topic, payload, env), i, TRUE)
    ELSE IF ~CommandMatches(r.Commands[i], topic)
    THEN MqttOnEventFrom(i + 1, acc, topic, payload, env)
    ELSE LET a == CommandStep(acc, i, topic, payload, env)
         IN  Progress(a, i + 1, a.done)

\* Line 284 and on to the first OscSend call.
MqttOnEventBegin(topic, payload, env) ==
    MqttOnEventFrom(1, AddLog(Acc0, Log(ReceiveLog, "<- [MQTT]")), topic, payload, env)

(***************************************************************************)
(* OscDispatcher.Dispatch.                                                 *)
(***************************************************************************)
\* Lines 165-175: a message packet.
DispatchMessage_PublishAnyway(acc, message) ==
    LET topic == r.MqttTopic \o CmdSuffix \o message.Address
        data == JsonMarshalArgs(message.Arguments)
    IN  AddLog(Publish(AddLog(acc, Log(ReceiveLog, "<- [OSC] message")), topic, data.val),
               Log(SendLog, "-> [MQTT]"))

DispatchMessage(acc, message) ==
    LET a0 == AddLog(acc, Log(ReceiveLog, "<- [OSC] message"))
        topic == r.MqttTopic \o CmdSuffix \o message.Address
        data == JsonMarshalArgs(message.Arguments)
    IN  IF data.err THEN Return(AddLog(a0, Log(ErrorLog, "Json Encode")))
        ELSE AddLog(Publish(a0, topic, data.val), Log(SendLog, "-> [MQTT]"))

\* Lines 179-189: a bundle packet.
DispatchBundle(acc, bundle) ==
    LET b == makeBundle(bundle)
        a0 == AddLog(acc, Log(ReceiveLog, "<- [OSC] Bundle"))
        topic == r.MqttTopic \o BundleSuffix
        data == JsonMarshalBundle(b)
    IN  IF data.err THEN Return(AddLog(a0, Log(ErrorLog, "Json Encode")))
        ELSE AddLog(Publish(a0, topic, data.val), Log(SendLog, "-> [MQTT]"))

\* Lines 157-192.
DispatchEffects(packet) ==
    IF packet = NilPacket THEN Acc0
    ELSE IF packet.kind = "message" THEN DispatchMessage(Acc0, packet)
    ELSE IF packet.kind = "bundle" THEN DispatchBundle(Acc0, packet)
    ELSE AddLog(Acc0, Log(ErrorLog, "Unknown OSC packet received."))

(***************************************************************************)
(* The subscription goroutines of Start.                                   *)
(***************************************************************************)
\* Lines 457-466: one tick of subscription i.
TickEffects_StopOnError(i, env) ==
    LET sub == r.OscSubscriptions[i]
        a0 == AddLog(Acc0, Log(DebugLog, "Running subscription"))
        a1 == CallOscSend(a0, "subscription", i,
                  [NewMessage(sub.Command) EXCEPT !.Arguments = sub.Payload], env)
    IN  IF a1.sends[1].ret # "nil" THEN [a1 EXCEPT !.panicked = TRUE, !.done = TRUE]
        ELSE a1

TickEffects(i, env) ==
    LET sub == r.OscSubscriptions[i]
        a0 == AddLog(Acc0, Log(DebugLog, "Running subscription"))
    IN  CallOscSend(a0, "subscription", i,
            [NewMessage(sub.Command) EXCEPT !.Arguments = sub.Payload], env)

(***************************************************************************)
(* Spec: one relay at run time.                                            *)
(***************************************************************************)
Ns == <<"n">>
TopicM == Ns \o <<"/", "m">>
TopicAbs == <<"t">>
TopicSend == Ns \o SendSuffix
TopicSendX == Ns \o SendSuffix \o <<"/", "x">>
\* <namespace>/sendx: beside <namespace>/send, not below it.
TopicSendSibling == Ns \o SendSuffix \o <<"x">>
TopicBundleSend == Ns \o BundleSuffix \o SendSuffix
TopicStatusCheck == Ns \o StatusSuffix \o CheckSuffix

\* The topics of the messages the broker delivers.
InboundTopics ==
    {TopicM, TopicAbs, TopicSend, TopicSendX, TopicSendSibling, TopicBundleSend,
     TopicStatusCheck}

DefaultD == Slice(<<GoString("d")>>)

\* The RelayCommand entries the command tables are built from.
CommandEntries ==
    <<[Command |-> AddrA, MqttTopic |-> <<>>, MqttSubTopic |-> <<"m">>,
       DisallowPayload |-> FALSE, DefaultPayload |-> NilSlice],
      [Command |-> AddrB, MqttTopic |-> <<>>, MqttSubTopic |-> <<"m">>,
       DisallowPayload |-> TRUE, DefaultPayload |-> DefaultD],
      [Command |-> AddrA, MqttTopic |-> TopicAbs, MqttSubTopic |-> <<>>,
       DisallowPayload |-> FALSE, DefaultPayload |-> DefaultD],
      [Command |-> AddrB, MqttTopic |-> <<>>,
       MqttSubTopic |-> <<"s", "e", "n", "d", "/", "x">>,
       DisallowPayload |-> TRUE, DefaultPayload |-> Slice(<<>>)],
      [Command |-> AddrA, MqttTopic |-> <<>>,
       MqttSubTopic |-> <<"s", "t", "a", "t", "u", "s", "/", "c", "h", "e", "c", "k">>,
       DisallowPayload |-> FALSE, DefaultPayload |-> NilSlice],
      [Command |-> AddrA, MqttTopic |-> TopicSendSibling, MqttSubTopic |-> <<>>,
       DisallowPayload |-> TRUE, DefaultPayload |-> NilSlice]>>

CommandPool == { CommandEntries[i] : i \in 1..Len(CommandEntries) }

\* The strictly increasing sequences of k indices into CommandEntries.
RECURSIVE Choices(_, _)
Choices(k, from) ==
    IF k = 0 THEN {<<>>}
    ELSE UNION { { <<i>> \o rest : rest \in Choices(k - 1, i + 1) } :
                 i \in from..Len(CommandEntries) }

\* The command tables of at most n entries: entries of CommandEntries, each
\* at most once, in the order of CommandEntries.
CommandTables(n) ==
    UNION { { [j \in 1..k |-> CommandEntries[c[j]]] : c \in Choices(k, 1) } :
            k \in 0..n }

\* The RelayOscSubscription tables: none, one entry, one entry without
\* interval (the zero Duration), two entries.
SubA == [Command |-> <<"/", "s">>, Payload |-> Slice(<<GoString("on")>>), Interval |-> 1]
SubB == [Command |-> <<"/", "t">>, Payload |-> NilSlice, Interval |-> 2]
SubZero == [Command |-> <<"/", "s">>, Payload |-> NilSlice, Interval |-> 0]
\* A subscription whose payload holds a NaN (.nan in the configuration file).
SubNaN == [Command |-> <<"/", "s">>, Payload |-> Slice(<<GoFloat64("NaN")>>), Interval |-> 1]
SubscriptionTables == {<<>>, <<SubA>>, <<SubZero>>, <<SubA, SubB>>}

\* Peer and bind settings: bidirectional (bind address and port) and
\* client-only (no bind address).
TransportShapes ==
    {[OscHost |-> "d", OscPort |-> 7, OscBindAddr |-> "l", OscBindPort |-> 7],
     [OscHost |-> "d", OscPort |-> 7, OscBindAddr |-> "", OscBindPort |-> 0]}

LogLevels == {ErrorLog}

\* A relay configuration: the exported fields of Relay the handlers read.
RelayConfig(t, d, c, u, l) ==
    [MqttTopic |-> Ns,
     MqttDisableConfigSend |-> FALSE,
     OscHost |-> t.OscHost, OscPort |-> t.OscPort,
     OscBindAddr |-> t.OscBindAddr, OscBindPort |-> t.OscBindPort,
     OscDisallowArbritaryCommand |-> d,
     Commands |-> c,
     OscSubscriptions |-> u,
     LogLevel |-> l]

\* The relay configurations with command tables of at most n entries: those
\* with commands and no subscriptions, and those with subscriptions only.
RelayConfigs(n) ==
    { RelayConfig(t, d, c, <<>>, l) :
         t \in TransportShapes, d \in BOOLEAN, c \in CommandTables(n),
         l \in LogLevels }
    \cup
    { RelayConfig(t, FALSE, <<>>, u, l) :
         t \in TransportShapes, u \in SubscriptionTables, l \in LogLevels }
    \cup
    { [RelayConfig(t, FALSE, <<>>, <<SubNaN>>, l)
          EXCEPT !.MqttDisableConfigSend = mute] :
         t \in TransportShapes, l \in LogLevels, mute \in BOOLEAN }

ArgsDoc == JArr(<<JStr("1")>>)
BundleDoc ==
    JBundle(JTime(T2023), JArr(<<JMsg(AddrB, JArr(<<JStr("s")>>))>>), JNull)

\* {"timetag": ..., "bundles": [{"timetag": ..., "messages": [null]}]}
BundleDocNullEntry ==
    JBundle(JTime(T2023), JNull,
            JArr(<<JBundle(JTime(T2023), JArr(<<JNull>>), JNull)>>))

\* [[1], true]
ArgsDocNested == JArr(<<JArr(<<JNum("1")>>), JBool(TRUE)>>)
\* {"address": "/b", "arguments": []}: an object without a bundle's keys.
MsgDoc == JMsg(AddrB, JArr(<<>>))
\* {"timetag": "x"}: a timetag that is no time.
BundleDocBadTime == JBundle(JStr("x"), JNull, JNull)

\* The payloads delivered on the topics whose handler decodes an argument
\* list: no bytes, no JSON, argument lists, and an object.
ArgPayloads ==
    {EmptyPayload, GarbagePayload, JsonPayload(ArgsDoc), JsonPayload(ArgsDocNested),
     JsonPayload(BundleDoc)}

\* The payloads delivered on <namespace>/bundle/send.
Payloads ==
    ArgPayloads \cup
    {JsonPayload(BundleDocNullEntry), JsonPayload(MsgDoc), JsonPayload(BundleDocBadTime)}

\* The payloads the model delivers on a topic.
PayloadsOn(topic) ==
    IF topic = Ns \o BundleSuffix \o SendSuffix THEN Payloads ELSE ArgPayloads

EnvOk == [fail |-> "none", at |-> 0]
\* The environments for the next OscSend call of a handler that has made
\* the calls of acc: the call goes through, or one of its operations fails;
\* at most one operation fails in one handler invocation.
Envs(acc) ==
    {EnvOk} \cup
    (IF \E k \in 1..Len(acc.sends) : acc.sends[k].failed # "none" THEN {}
     ELSE [fail : {"resolve", "marshal", "dial", "write"}, at : {acc.n + 1}])

NaNArgs == Slice(<<GoFloat32("NaN")>>)
DispatchPackets ==
    {NilPacket, OtherPacket,
     WireMsg(MsgNilArgs), WireMsg(MsgTwoArgs),
     WireMsg([Address |-> AddrA, Arguments |-> NaNArgs]),
     [NewBundle(T2023) EXCEPT !.Messages = Slice(<<WireMsg(MsgTwoArgs)>>)],
     [NewBundle(T2023) EXCEPT
        !.Bundles = Slice(<<[NewBundle(T2023) EXCEPT
             !.Messages = Slice(<<WireMsg([Address |-> AddrA,
                                           Arguments |-> NaNArgs])>>)]>>)]}

NoEvent ==
    [op |-> "none", topic |-> <<>>, payload |-> EmptyPayload,
     packet |-> NilPacket, idx |-> 0,
     sends |-> <<>>, pubs |-> <<>>, logs |-> <<>>,
     n |-> 0, done |-> FALSE, panicked |-> FALSE,
     next |-> 0, ended |-> TRUE]

\* The record of a handler invocation: its input, everything it did so far
\* and how far it has run.
Event(op, topic, payload, packet, idx, p) ==
    [op |-> op, topic |-> topic, payload |-> payload, packet |-> packet,
     idx |-> idx,
     sends |-> p.acc.sends, pubs |-> p.acc.pubs, logs |-> p.acc.logs,
     n |-> p.acc.n, done |-> p.acc.done, panicked |-> p.acc.panicked,
     next |-> p.next, ended |-> p.ended]

\* What the followed handler did so far.
EventAcc ==
    [sends |-> ev.sends, pubs |-> ev.pubs, logs |-> ev.logs, n |-> ev.n,
     done |-> ev.done, panicked |-> ev.panicked]

\* The variables of the other specifications, which Spec leaves alone.
AppIdle == loaded = <<>> /\ relays = <<>> /\ appPc = "off" /\ started = <<>>
CodecIdle == cx = NilPacket /\ cmid = NilPacket /\ cout = NilPacket /\ cpc = "off"
RelayIdle ==
    /\ r = NilPacket /\ startPc = "off" /\ filters = <<>> /\ startLog = <<>>
    /\ OscServer = FALSE
    /\ OscServerConn = "nil" /\ srvPc = "off" /\ proc = "off" /\ ev = NoEvent
    /\ tickers = <<>> /\ statusSent = <<>>

Init ==
    /\ r \in RelayConfigs(MaxCmds)
    /\ startPc = "new"
    /\ filters = <<>>
    /\ startLog = <<>>
    /\ OscServer = FALSE
    /\ OscServerConn = "nil"
    /\ srvPc = "none"
    /\ proc = "running"
    /\ ev = NoEvent
    /\ tickers = [i \in 1..Len(r.OscSubscriptions) |-> "none"]
    /\ statusSent = <<>>
    /\ AppIdle
    /\ CodecIdle

\* The model follows one handler invocation at a time: a handler starts when
\* no record is held.
Ready == proc = "running" /\ ev.op = "none"

\* Start and the goroutines it spawned run beside a handler that has not
\* ended.
Beside == proc = "running" /\ (ev.op = "none" \/ ~ev.ended)

\* A handler that panics takes the process down.
AfterHandler(acc) == IF acc.panicked THEN "panicked" ELSE "running"

startVars == <<startPc, filters, startLog, statusSent>>
serverVars == <<OscServer, OscServerConn, srvPc>>

\* Start, lines 392-405: connect to the broker; a failure is fatal.
StartConnect ==
    /\ Beside /\ startPc = "new"
    /\ \E connected \in BOOLEAN :
          IF connected
          THEN startPc' = "subscribing" /\ proc' = proc
          ELSE startPc' = startPc /\ proc' = "exited"
    /\ UNCHANGED <<r, filters, startLog, statusSent, serverVars, ev, tickers>>
    /\ UNCHANGED <<appVars, codecVars>>

\* The outcomes of the next Subscribe call (TRUE: subscribed): the model
\* lets at most one call of a run fail, the first or the last of Start's.
SubscribeOutcomes ==
    IF /\ \A f \in 1..Len(filters) : filters[f] = "ok"
       /\ Len(filters) = 0 \/ Len(filters) + 1 = Len(StartFilters)
    THEN BOOLEAN ELSE {TRUE}

\* Start, lines 408-419 and MqttSubscribe: the next Subscribe call, which
\* waits for the broker's answer; a failure is logged and Start goes on.
\* From the first filter on the broker client calls MqttOnEvent on its own
\* goroutine.
StartSubscribe ==
    /\ Beside /\ startPc = "subscribing"
    /\ Len(filters) < Len(StartFilters)
    /\ \E ok \in SubscribeOutcomes :
          /\ filters' = Append(filters, IF ok THEN "ok" ELSE "failed")
          /\ startLog' = startLog \o
                (IF ok THEN <<>> ELSE Log(ErrorLog, "MQTT Subscribe Error"))
    /\ UNCHANGED <<r, startPc, statusSent, serverVars, proc, ev, tickers>>
    /\ UNCHANGED <<appVars, codecVars>>

\* Lines 426-428: bidirectional mode is configured.
ServerConfigured == r.OscBindAddr # "" /\ r.OscBindPort # 0

\* Start, lines 421-449: set up the client; when a server is configured, set
\* r.OscServer and spawn the server goroutine.
StartServer ==
    /\ Beside /\ startPc = "subscribing"
    /\ Len(filters) = Len(StartFilters)
    /\ startPc' = "spawning"
    /\ OscServer' = ServerConfigured
    /\ srvPc' = IF ServerConfigured THEN "spawned" ELSE srvPc
    /\ UNCHANGED <<r, filters, startLog, statusSent, OscServerConn, proc, ev, tickers>>
    /\ UNCHANGED <<appVars, codecVars>>

\* Start, lines 452-468: spawn the goroutine of the next subscription.
StartSpawn ==
    /\ Beside /\ startPc = "spawning"
    /\ \E i \in 1..Len(tickers) :
          /\ tickers[i] = "none"
          /\ \A j \in 1..(i - 1) : tickers[j] # "none"
          /\ tickers' = [tickers EXCEPT ![i] = "spawned"]
    /\ UNCHANGED <<r, startVars, serverVars, proc, ev>>
    /\ UNCHANGED <<appVars, codecVars>>

\* Start, line 471: send the status; Start returns.
StartStatus ==
    /\ Beside /\ startPc = "spawning"
    /\ \A i \in 1..Len(tickers) : tickers[i] # "none"
    /\ startPc' = "started"
    /\ statusSent' = SendStatus(Acc0).pubs
    /\ startLog' = startLog \o SendStatus(Acc0).logs
    /\ UNCHANGED <<r, filters, serverVars, proc, ev, tickers>>
    /\ UNCHANGED <<appVars, codecVars>>

\* The server goroutine, lines 431-441: listen (a failure is fatal) and
\* store the socket in r.OscServerConn.
ServerListen ==
    /\ Beside /\ srvPc = "spawned"
    /\ \E bound \in BOOLEAN :
          IF bound
          THEN OscServerConn' = "open" /\ srvPc' = "serving" /\ proc' = proc
          ELSE OscServerConn' = OscServerConn /\ srvPc' = srvPc /\ proc' = "exited"
    /\ UNCHANGED <<r, startVars, OscServer, ev, tickers>>
    /\ UNCHANGED <<appVars, codecVars>>

\* The server goroutine, lines 444-447: Serve returns an error (a failed
\* read of the socket); log.Fatal ends the process.
ServeFails ==
    /\ Beside /\ srvPc = "serving"
    /\ proc' = "exited"
    /\ UNCHANGED <<r, startVars, serverVars, ev, tickers>>
    /\ UNCHANGED <<appVars, codecVars>>

\* The broker delivers a message on a subscribed topic: MqttOnEvent runs up
\* to its first OscSend call, or to its end.
MqttOnEvent ==
    /\ Ready
    /\ \E topic \in InboundTopics :
       \E payload \in PayloadsOn(topic), env \in Envs(Acc0) :
          /\ Subscribed(topic)
          /\ LET p == MqttOnEventBegin(topic, payload, env)
             IN  /\ ev' = Event("mqtt", topic, payload, NilPacket, 0, p)
                 /\ proc' = AfterHandler(p.acc)
    /\ UNCHANGED <<r, startVars, serverVars, tickers>>
    /\ UNCHANGED <<appVars, codecVars>>

\* MqttOnEvent runs on from its last OscSend call to the next, or to its end.
MqttOnEventContinues ==
    /\ proc = "running" /\ ev.op = "mqtt" /\ ~ev.ended
    /\ \E env \in Envs(EventAcc) :
          LET p == MqttOnEventFrom(ev.next, EventAcc, ev.topic, ev.payload, env)
          IN  /\ ev' = Event("mqtt", ev.topic, ev.payload, NilPacket, 0, p)
              /\ proc' = AfterHandler(p.acc)
    /\ UNCHANGED <<r, startVars, serverVars, tickers>>
    /\ UNCHANGED <<appVars, codecVars>>

\* time.NewTicker(d) panics when d <= 0.
NewTickerPanics(d) == d <= 0

\* Lines 454-456: the goroutine of subscription i starts and makes its
\* ticker; a panic in a goroutine ends the process.
SubscriptionStart ==
    /\ Beside
    /\ \E i \in 1..Len(r.OscSubscriptions) :
          /\ tickers[i] = "spawned"
          /\ IF NewTickerPanics(r.OscSubscriptions[i].Interval)
             THEN /\ tickers' = [tickers EXCEPT ![i] = "panicked"]
                  /\ proc' = "panicked"
             ELSE /\ tickers' = [tickers EXCEPT ![i] = "ticking"]
                  /\ proc' = proc
    /\ UNCHANGED <<r, startVars, serverVars, ev>>
    /\ UNCHANGED <<appVars, codecVars>>

\* The ticker of subscription i fires.
SubscriptionTick ==
    /\ Ready
    /\ \E i \in 1..Len(r.OscSubscriptions), env \in Envs(Acc0) :
          /\ tickers[i] = "ticking"
          /\ LET acc == TickEffects(i, env)
             IN  /\ ev' = Event("tick", <<>>, EmptyPayload, NilPacket, i,
                                Progress(acc, 0, TRUE))
                 /\ proc' = AfterHandler(acc)
    /\ UNCHANGED <<r, startVars, serverVars, tickers>>
    /\ UNCHANGED <<appVars, codecVars>>

\* The OSC server hands a received packet to the dispatcher.
Dispatch ==
    /\ Ready /\ srvPc = "serving"
    /\ \E packet \in DispatchPackets :
          ev' = Event("dispatch", <<>>, EmptyPayload, packet, 0,
                      Progress(DispatchEffects(packet), 0, TRUE))
    /\ UNCHANGED <<r, startVars, serverVars, proc, tickers>>
    /\ UNCHANGED <<appVars, codecVars>>

\* The handler has returned; its record is dropped.
HandlerReturns ==
    /\ proc = "running" /\ ev.op # "none" /\ ev.ended
    /\ ev' = NoEvent
    /\ UNCHANGED <<r, startVars, serverVars, proc, tickers>>
    /\ UNCHANGED <<appVars, codecVars>>

Next ==
    \/ StartConnect
    \/ StartSubscribe
    \/ StartServer
    \/ StartSpawn
    \/ StartStatus
    \/ ServerListen
    \/ ServeFails
    \/ MqttOnEvent
    \/ MqttOnEventContinues
    \/ SubscriptionStart
    \/ SubscriptionTick
    \/ Dispatch
    \/ HandlerReturns

Spec == Init /\ [][Next]_vars

(***************************************************************************)
(* SpecConfig: main(), ReadConfig and the Start loop.                      *)
(***************************************************************************)
\* config.go lines 60-64: the bind port defaults to the OSC port.
DeriveBindPort_Never(relay) == relay

DeriveBindPort(relay) ==
    IF relay.OscBindAddr # "" /\ relay.OscBindPort = 0
    THEN [relay EXCEPT !.OscBindPort = relay.OscPort]
    ELSE relay

DeriveBindPorts(rs) == [i \in 1..Len(rs) |-> DeriveBindPort(rs[i])]

Fatal(i, why) == [fatal |-> TRUE, index |-> i, why |-> why]
Valid == [fatal |-> FALSE, index |-> 0, why |-> "none"]

\* config.go lines 77-84: relay i against relay b.
PairViolation_TopicOnly(rs, i, b) ==
    IF b = i THEN "none"
    ELSE IF rs[i].MqttTopic = rs[b].MqttTopic THEN "topic"
    ELSE "none"

PairViolation(rs, i, b) ==
    IF b = i THEN "none"
    ELSE IF rs[i].MqttTopic = rs[b].MqttTopic THEN "topic"
    ELSE IF rs[i].OscBindPort = rs[b].OscBindPort THEN "bind port"
    ELSE "none"

\* config.go lines 76-85: the inner loop from relay b on.
RECURSIVE PairLoop(_, _, _)
PairLoop(rs, i, b) ==
    IF b > Len(rs) THEN "none"
    ELSE IF PairViolation(rs, i, b) # "none" THEN PairViolation(rs, i, b)
    ELSE PairLoop(rs, i, b + 1)

\* config.go lines 67-85: the checks of relay i.
RelayViolation(rs, i) ==
    IF rs[i].MqttHost = "" \/ rs[i].MqttPort = 0 THEN "mqtt"
    ELSE IF rs[i].MqttTopic = <<>> THEN "topic required"
    ELSE IF rs[i].OscBindAddr = "" /\ rs[i].OscHost = "" THEN "endpoint"
    ELSE PairLoop(rs, i, 1)

\* config.go lines 66-86: the outer loop from relay i on; log.Fatalf at the
\* first violation.
RECURSIVE ValidateFrom(_, _)
ValidateFrom_SkipLast(rs, i) ==
    IF i >= Len(rs) THEN Valid
    ELSE IF RelayViolation(rs, i) # "none" THEN Fatal(i - 1, RelayViolation(rs, i))
    ELSE ValidateFrom(rs, i + 1)

ValidateFrom(rs, i) ==
    IF i > Len(rs) THEN Valid
    ELSE IF RelayViolation(rs, i) # "none" THEN Fatal(i - 1, RelayViolation(rs, i))
    ELSE ValidateFrom(rs, i + 1)

\* config.go lines 56-86, on the list after lines 60-64.
Validate(rs) ==
    IF Len(rs) = 0 THEN Fatal(0, "no relays")
    ELSE ValidateFrom(rs, 1)

\* The relay drafts a configuration file can hold.
RelayDrafts ==
    [MqttHost : {"h"}, MqttPort : {1883}, MqttTopic : {<<"a">>, <<"b">>},
     OscHost : {"", "d"}, OscPort : {0, 7},
     OscBindAddr : {"", "l"}, OscBindPort : {0, 7, 8}]
    \cup
    { [MqttHost |-> h, MqttPort |-> p, MqttTopic |-> t,
       OscHost |-> "d", OscPort |-> 7, OscBindAddr |-> "l", OscBindPort |-> 0] :
         h \in {"", "h"}, p \in {0, 1883}, t \in {<<>>, <<"a">>} }

\* The relay lists of at most n relays.
RelayLists(n) == UNION { [1..k -> RelayDrafts] : k \in 0..n }

InitConfig ==
    /\ loaded \in RelayLists(MaxRelays)
    /\ relays = loaded
    /\ appPc = "read"
    /\ started = <<>>
    /\ RelayIdle
    /\ CodecIdle

\* main.go line 30, config.go lines 19-87: find, read and parse the file
\* (each failure is fatal), derive the bind ports, validate.
ReadConfig ==
    /\ appPc = "read"
    /\ \E readable \in BOOLEAN :
          IF ~readable
          THEN relays' = relays /\ appPc' = "fatal"
          ELSE /\ relays' = DeriveBindPorts(relays)
               /\ appPc' = IF Validate(DeriveBindPorts(relays)).fatal
                           THEN "fatal" ELSE "start"
    /\ UNCHANGED <<loaded, started>>
    /\ UNCHANGED <<relayVars, codecVars>>

\* main.go lines 32-34 and Start lines 392-405: main calls Start of the next
\* relay of the list, which connects to the broker; a failed connection
\* exits the process at line 403, before anything else of the relay is set up.
StartRelay ==
    /\ appPc = "start"
    /\ Len(started) < Len(relays)
    /\ \E connected \in BOOLEAN :
          /\ started' = Append(started,
                [index |-> Len(started) + 1, connected |-> connected,
                 ran |-> FALSE, server |-> FALSE])
          /\ appPc' = IF connected THEN "starting" ELSE "fatal"
    /\ UNCHANGED <<loaded, relays>>
    /\ UNCHANGED <<relayVars, codecVars>>

\* Start lines 407-471 of the relay main is starting: subscribe, set up the
\* client, set up the server when a bind address and a bind port are
\* configured (lines 427-428), spawn the goroutines, send the status.
StartRelayRun ==
    /\ appPc = "starting"
    /\ started' = [started EXCEPT ![Len(started)] =
                      [@ EXCEPT !.ran = TRUE,
                                !.server = /\ relays[Len(started)].OscBindAddr # ""
                                           /\ relays[Len(started)].OscBindPort # 0]]
    /\ appPc' = "start"
    /\ UNCHANGED <<loaded, relays>>
    /\ UNCHANGED <<relayVars, codecVars>>

\* A goroutine of a relay whose broker connection stands ends the process
\* while main is elsewhere: log.Fatal in the server goroutine (lines 438 and
\* 446), a panic in a broker callback (lines 230, 267-277) or in a
\* subscription goroutine (line 456).
RelayEndsProcess ==
    /\ appPc \in {"start", "starting", "spin"}
    /\ \E i \in 1..Len(started) : started[i].connected
    /\ appPc' = "fatal"
    /\ UNCHANGED <<loaded, relays, started>>
    /\ UNCHANGED <<relayVars, codecVars>>

\* main.go lines 36-37: every relay is started; main spins.
MainSpins ==
    /\ appPc = "start"
    /\ Len(started) = Len(relays)
    /\ appPc' = "spin"
    /\ UNCHANGED <<loaded, relays, started>>
    /\ UNCHANGED <<relayVars, codecVars>>

NextConfig ==
    \/ ReadConfig
    \/ StartRelay
    \/ StartRelayRun
    \/ RelayEndsProcess
    \/ MainSpins

SpecConfig == InitConfig /\ [][NextConfig]_vars

(***************************************************************************)
(* SpecCodec: the bundle codec applied in both orders.                     *)
(***************************************************************************)
\* The portable and the wire bundles of nesting depth <= d.
CodecInputs(d) ==
    { [from |-> "portable", b |-> b] : b \in PortableBundles(d) }
    \cup { [from |-> "wire", b |-> b] : b \in WireBundles(d) }

InitCodec ==
    /\ cx \in CodecInputs(MaxDepth)
    /\ cmid = NilPacket
    /\ cout = NilPacket
    /\ cpc = "in"
    /\ RelayIdle
    /\ AppIdle

\* The first conversion: MakeOSCBundle of a portable bundle, makeBundle of a
\* wire bundle.
CodecFirst ==
    /\ cpc = "in"
    /\ cmid' = IF cx.from = "portable" THEN MakeOSCBundle(cx.b) ELSE makeBundle(cx.b)
    /\ cpc' = "mid"
    /\ UNCHANGED <<cx, cout>>
    /\ UNCHANGED <<relayVars, appVars>>

\* The second conversion, back to the kind of the input.
CodecSecond ==
    /\ cpc = "mid"
    /\ cout' = IF cx.from = "portable" THEN makeBundle(cmid) ELSE MakeOSCBundle(cmid)
    /\ cpc' = "done"
    /\ UNCHANGED <<cx, cmid>>
    /\ UNCHANGED <<relayVars, appVars>>

NextCodec ==
    \/ CodecFirst
    \/ CodecSecond

SpecCodec == InitCodec /\ [][NextCodec]_vars

(***************************************************************************)
(* Properties of MqttOnEvent (Spec).                                       *)
(***************************************************************************)
\* The record is that of a broker message whose handler has ended.
EvMqtt == ev.op = "mqtt" /\ ev.ended
\* The record is that of a broker message, its handler running or ended.
EvMqttSoFar == ev.op = "mqtt"
SomeCommandMatches(topic) ==
    \E i \in 1..Len(r.Commands) : CommandMatches(r.Commands[i], topic)
SendsFrom(src) == { k \in 1..Len(ev.sends) : ev.sends[k].src = src }
HasErrorLog(msg) ==
    \E k \in 1..Len(ev.logs) : ev.logs[k] = LogLine(ErrorLog, msg)
AnyErrorLog == \E k \in 1..Len(ev.logs) : ev.logs[k].level = ErrorLog
\* The payload is empty or decodes as an argument list.
PayloadUsable(payload) ==
    \/ payload.bytes = "empty"
    \/ payload.bytes = "json" /\ payload.doc.j \in {"null", "array"}

\* C1 as stated: a message whose topic matches a command mapping and has the
\* <namespace>/send prefix is never also dispatched as a generic send.
C1_MappingExcludesGenericSend ==
    (EvMqtt /\ SomeCommandMatches(ev.topic) /\ HasPrefix(ev.topic, SendTopic))
        => SendsFrom("send") = {}

\* C1 as amended: for such a message the generic send is dispatched as well,
\* after the mapping sends, only when arbitrary commands are allowed, the
\* payload is empty or decodes, and no mapping send has crashed the handler,
\* and in that case always once the handler has run to its end.
C1_MappingThenGenericSend ==
    (EvMqttSoFar /\ SomeCommandMatches(ev.topic) /\ HasPrefix(ev.topic, SendTopic))
        => /\ (SendsFrom("send") # {} \/ ev.ended)
                => ((SendsFrom("send") # {})
                      <=> /\ ~r.OscDisallowArbritaryCommand
                          /\ PayloadUsable(ev.payload)
                          /\ \A k \in SendsFrom("command") : ~ev.sends[k].panicked)
           /\ Cardinality(SendsFrom("send")) <= 1
           /\ \A k \in SendsFrom("send") : k = Len(ev.sends)

C1_Witness ==
    /\ EvMqtt /\ SomeCommandMatches(ev.topic) /\ HasPrefix(ev.topic, SendTopic)
    /\ SendsFrom("command") # {}
    /\ SendsFrom("send") # {}

\* The topics of the arbitrary-command gate: <namespace>/send/<anything> and
\* <namespace>/bundle/send.
GatedTopic(topic) ==
    \/ HasPrefix(topic, SendTopic \o Slash)
    \/ topic = BundleSendTopic

\* C2 as stated: with arbitrary commands disallowed, a message on a gated
\* topic makes no OscSend call and logs an error, whatever the command table.
C2_GateBlocksEverySend ==
    (EvMqtt /\ r.OscDisallowArbritaryCommand /\ GatedTopic(ev.topic))
        => ev.sends = <<>> /\ AnyErrorLog

\* C2 as amended: with arbitrary commands disallowed, a message on a gated
\* topic makes no generic or bundle send; the only OscSend calls are those of
\* command mappings matching the topic, and when none matches nothing is sent
\* and the "disabled" error is logged.
C2_GateBlocksArbitrarySends ==
    (EvMqttSoFar /\ r.OscDisallowArbritaryCommand /\ GatedTopic(ev.topic))
        => /\ \A k \in 1..Len(ev.sends) :
                 /\ ev.sends[k].src = "command"
                 /\ CommandMatches(r.Commands[ev.sends[k].idx], ev.topic)
           /\ ~SomeCommandMatches(ev.topic)
                 => /\ ev.sends = <<>>
                    /\ HasErrorLog("Arbritary commands are disabled on this relay.")

C2_Witness ==
    /\ EvMqtt /\ r.OscDisallowArbritaryCommand /\ GatedTopic(ev.topic)
    /\ ev.payload = JsonPayload(ArgsDoc)
    /\ ev.sends = <<>>
    /\ HasErrorLog("Arbritary commands are disabled on this relay.")

\* C3: a command mapping's message is addressed at the mapping's command, and
\* its arguments are the decoded payload when the mapping allows payloads and
\* the payload is non-empty, the mapping's default payload in every other case.
C3_MappingArguments ==
    EvMqttSoFar =>
        \A k \in SendsFrom("command") :
            LET cmd == r.Commands[ev.sends[k].idx]
                pkt == ev.sends[k].pkt
            IN  /\ pkt.kind = "message"
                /\ pkt.Address = cmd.Command
                /\ IF ~cmd.DisallowPayload /\ ev.payload.bytes # "empty"
                   THEN /\ ev.payload.bytes = "json"
                        /\ ev.payload.doc.j = "array"
                        /\ Len(pkt.Arguments.e) = Len(ev.payload.doc.items)
                        /\ \A a \in 1..Len(pkt.Arguments.e) :
                              JsonMarshalValue(pkt.Arguments.e[a]).val
                                 = ev.payload.doc.items[a]
                   ELSE pkt.Arguments.e = cmd.DefaultPayload.e

C3_Witness ==
    /\ EvMqtt
    /\ \E k \in SendsFrom("command") :
          /\ r.Commands[ev.sends[k].idx].DisallowPayload
          /\ ev.payload = JsonPayload(ArgsDoc)
          /\ ev.sends[k].pkt.Arguments = DefaultD
    /\ \E k \in SendsFrom("command") :
          /\ ~r.Commands[ev.sends[k].idx].DisallowPayload
          /\ ev.sends[k].pkt.Arguments = Slice(<<GoString("1")>>)

\* C4 as stated: when the payload fails to decode for a matching mapping that
\* forwards payloads, every matching mapping later in the table that does not
\* decode the payload still dispatches its message.
C4_DecodeFailureIsolated ==
    (EvMqtt /\ ~ev.panicked) =>
        \A i \in 1..Len(r.Commands), j \in 1..Len(r.Commands) :
            ( /\ i < j
              /\ CommandMatches(r.Commands[i], ev.topic)
              /\ ~r.Commands[i].DisallowPayload
              /\ ~PayloadUsable(ev.payload)
              /\ CommandMatches(r.Commands[j], ev.topic)
              /\ r.Commands[j].DisallowPayload )
            => \E k \in SendsFrom("command") : ev.sends[k].idx = j

\* C5 as stated: a relay configured with a server never sends through a
\* dialed connection.
C5_ServerRelaySendsThroughServerSocket ==
    ServerConfigured =>
        \A k \in 1..Len(ev.sends) : ev.sends[k].via # "dial"

\* C6 as stated: OscSend returns an error whenever resolving, encoding,
\* dialing or writing fails, and returns nil only for a nil packet or after a
\* successful write.
C6_SendErrorsReported ==
    \A k \in 1..Len(ev.sends) :
        ~ev.sends[k].panicked =>
            /\ ev.sends[k].failed # "none" => ev.sends[k].ret # "nil"
            /\ ev.sends[k].ret = "nil"
                  => ev.sends[k].wrote \/ ev.sends[k].pkt = NilPacket

(***************************************************************************)
(* Properties of Dispatch (Spec).                                          *)
(***************************************************************************)
EvDispatch == ev.op = "dispatch"
ArgsEncodable(args) == \A i \in 1..Len(args.e) : args.e[i].v # "NaN"
RECURSIVE WireBundleEncodable(_)
WireBundleEncodable(b) ==
    /\ \A i \in 1..SliceLen(b.Messages) : ArgsEncodable(b.Messages.e[i].Arguments)
    /\ \A i \in 1..SliceLen(b.Bundles) : WireBundleEncodable(b.Bundles.e[i])

OnePublish(topic) ==
    /\ Len(ev.pubs) = 1
    /\ ev.pubs[1].topic = topic
    /\ ev.pubs[1].retained

\* C9 as stated: every message packet yields exactly one retained publish to
\* <namespace>/cmd<address>, every bundle exactly one to <namespace>/bundle,
\* an unknown packet an error log and no publish, a nil packet nothing.
C9_EveryPacketPublished ==
    EvDispatch =>
        /\ ev.packet.kind = "message"
              => OnePublish(r.MqttTopic \o CmdSuffix \o ev.packet.Address)
        /\ ev.packet.kind = "bundle" => OnePublish(r.MqttTopic \o BundleSuffix)
        /\ ev.packet.kind = "other" => ev.pubs = <<>> /\ AnyErrorLog
        /\ ev.packet.kind = "nil" => ev.pubs = <<>> /\ ev.logs = <<>>

\* C9 as amended: the same, for the messages and bundles whose arguments
\* encode as JSON; one holding a NaN float yields an error log and no publish.
C9_EncodablePacketPublished ==
    EvDispatch =>
        /\ ev.packet.kind = "message" =>
              IF ArgsEncodable(ev.packet.Arguments)
              THEN /\ OnePublish(r.MqttTopic \o CmdSuffix \o ev.packet.Address)
                   /\ ev.pubs[1].data = JsonMarshalArgs(ev.packet.Arguments).val
              ELSE ev.pubs = <<>> /\ HasErrorLog("Json Encode")
        /\ ev.packet.kind = "bundle" =>
              IF WireBundleEncodable(ev.packet)
              THEN /\ OnePublish(r.MqttTopic \o BundleSuffix)
                   /\ ev.pubs[1].data = JsonMarshalBundle(makeBundle(ev.packet)).val
              ELSE ev.pubs = <<>> /\ HasErrorLog("Json Encode")
        /\ ev.packet.kind = "other"
              => ev.pubs = <<>> /\ HasErrorLog("Unknown OSC packet received.")
        /\ ev.packet.kind = "nil" => ev.pubs = <<>> /\ ev.logs = <<>>

C9_Witness ==
    /\ EvDispatch
    /\ ev.packet = WireMsg(MsgTwoArgs)
    /\ OnePublish(Ns \o CmdSuffix \o AddrB)
    /\ ev.pubs[1].data = JArr(<<JStr("s"), JNum("1")>>)

(***************************************************************************)
(* Properties of ReadConfig and main (SpecConfig).                         *)
(***************************************************************************)
\* A relay list that validation must reject; the bind port of a relay is its
\* port after the default of config.go lines 60-64.
EffectiveBindPort(relay) ==
    IF relay.OscBindPort = 0 /\ relay.OscBindAddr # "" THEN relay.OscPort
    ELSE relay.OscBindPort

ListViolates(rs) ==
    \/ Len(rs) = 0
    \/ \E i \in 1..Len(rs) :
          \/ rs[i].MqttHost = "" \/ rs[i].MqttPort = 0
          \/ rs[i].MqttTopic = <<>>
          \/ rs[i].OscBindAddr = "" /\ rs[i].OscHost = ""
    \/ \E i, b \in 1..Len(rs) :
          /\ i # b
          /\ \/ rs[i].MqttTopic = rs[b].MqttTopic
             \/ EffectiveBindPort(rs[i]) = EffectiveBindPort(rs[b])

\* C7: once ReadConfig has run, a list that is empty, or holds a relay without
\* broker host or port, without topic, or with neither bind address nor OSC
\* host, or two relays with the same topic or the same bind port, has ended
\* the process.
C7_ValidationRejects ==
    (appPc # "read" /\ ListViolates(loaded)) => appPc = "fatal"

C7_Witness ==
    /\ appPc = "fatal"
    /\ Len(loaded) = 2
    /\ loaded[1].MqttTopic # loaded[2].MqttTopic
    /\ loaded[1].OscBindPort = 7 /\ loaded[2].OscBindPort = 7
    /\ \A i \in 1..2 : /\ loaded[i].MqttHost # "" /\ loaded[i].MqttPort # 0
                       /\ loaded[i].MqttTopic # <<>> /\ loaded[i].OscHost # ""

\* C8: a relay's Start is called only after ReadConfig has run over the whole
\* list and found no violation in any relay.
C8_NoPartialStart ==
    started # <<>> => appPc # "read" /\ ~ListViolates(loaded)

C8_Witness ==
    /\ Len(started) = 2
    /\ appPc = "spin"

(***************************************************************************)
(* Properties of the bundle codec (SpecCodec).                             *)
(***************************************************************************)
\* Same timestamp, same messages in order, same nested bundles in order.
RECURSIVE SamePortable(_, _)
SamePortable(a, b) ==
    /\ a.Timetag = b.Timetag
    /\ a.Messages.e = b.Messages.e
    /\ SliceLen(a.Bundles) = SliceLen(b.Bundles)
    /\ \A i \in 1..SliceLen(a.Bundles) : SamePortable(a.Bundles.e[i], b.Bundles.e[i])

\* C10: both round trips reproduce every bundle of nesting depth <= MaxDepth:
\* MakeOSCBundle(makeBundle(x)) is x for a wire bundle x, and
\* makeBundle(MakeOSCBundle(x)) has the timestamp, the messages (address and
\* argument list) in order and the nested bundles in order of a portable
\* bundle x, at every level.
C10_RoundTrip ==
    cpc = "done" =>
        IF cx.from = "wire" THEN cout = cx.b ELSE SamePortable(cout, cx.b)

C10_Witness ==
    /\ cpc = "done"
    /\ cx.from = "portable"
    /\ cx.b.Timetag = T2040
    /\ cx.b.Messages = Slice(<<MsgTwoArgs, MsgEmptyArgs>>)
    /\ SliceLen(cx.b.Bundles) = 2
    /\ cx.b.Bundles.e[1].Timetag = ZeroTime
    /\ cmid.Timetag.timeTag.h < secondsFrom1900To1970.q
    /\ SamePortable(cout, cx.b)

(***************************************************************************)
(* Properties of the subscription goroutines (Spec).                       *)
(***************************************************************************)
\* C11 as stated: a subscription whose interval is zero never fires, and the
\* start of its goroutine does not crash the process.
C11_ZeroIntervalSafe ==
    \A i \in 1..Len(r.OscSubscriptions) :
        r.OscSubscriptions[i].Interval = 0 =>
            /\ tickers[i] # "ticking"
            /\ tickers[i] # "panicked"

(***************************************************************************)
(* Properties of the status check (Spec).                                  *)
(***************************************************************************)
EvStatusCheck == EvMqtt /\ ev.topic = StatusCheckTopic /\ startPc = "started"

\* C12 as stated: a message on <namespace>/status/check publishes exactly what
\* Start's SendStatus published (nothing when the config send is disabled),
\* and handling it changes no configuration or runtime state of the relay.
C12_StatusCheckIdempotent ==
    /\ [](EvStatusCheck => ev.pubs = statusSent)
    /\ [][(ev'.op = "mqtt" /\ ev'.topic = StatusCheckTopic /\ ev.op = "none")
             => UNCHANGED <<r, startPc, filters, OscServer, OscServerConn,
                            srvPc, tickers, statusSent>>]_vars

(***************************************************************************)
(* Properties of argument lists in translation (Spec).                     *)
(***************************************************************************)
\* C13 as stated: a received message without arguments is published with the
\* empty JSON array, never null, and the messages inside a published bundle
\* carry an array for their arguments, never null.
RECURSIVE NoNullArguments(_)
NoNullArguments(doc) ==
    /\ doc.messages.j = "array" =>
          \A i \in 1..Len(doc.messages.items) :
              doc.messages.items[i].arguments.j = "array"
    /\ doc.bundles.j = "array" =>
          \A i \in 1..Len(doc.bundles.items) : NoNullArguments(doc.bundles.items[i])

C13_AbsentArgumentsEmpty ==
    (EvDispatch /\ Len(ev.pubs) = 1) =>
        /\ ev.packet.kind = "message" => ev.pubs[1].data.j = "array"
        /\ ev.packet.kind = "bundle" => NoNullArguments(ev.pubs[1].data)

(***************************************************************************)
(* Properties of the generic send branch and of the server socket (Spec).  *)
(***************************************************************************)
\* The address of a generic send: the topic without the <namespace>/send
\* prefix, "/" when nothing is left.
GenericAddress(topic) ==
    IF Len(topic) = Len(SendTopic) THEN Slash
    ELSE SubSeq(topic, Len(SendTopic) + 1, Len(topic))

\* The arguments a payload decodes to: none for the empty payload.
DecodedArguments(payload) ==
    IF payload.bytes = "empty" THEN <<>> ELSE JsonUnmarshalArgs(payload).val.e

\* C14 as stated: with arbitrary commands allowed, a message on a topic with
\* the <namespace>/send prefix dispatches exactly one generic message, to the
\* topic's remainder with the decoded payload as arguments; when the payload
\* does not decode, no generic message is dispatched and an error is logged.
C14_GenericSendTranslation ==
    (EvMqtt /\ ~r.OscDisallowArbritaryCommand /\ HasPrefix(ev.topic, SendTopic)) =>
        IF PayloadUsable(ev.payload)
        THEN /\ Cardinality(SendsFrom("send")) = 1
             /\ \A k \in SendsFrom("send") :
                   /\ ev.sends[k].pkt.kind = "message"
                   /\ ev.sends[k].pkt.Address = GenericAddress(ev.topic)
                   /\ ev.sends[k].pkt.Arguments.e = DecodedArguments(ev.payload)
        ELSE /\ SendsFrom("send") = {}
             /\ HasErrorLog("Json Error")

\* C15 as stated: no OscSend call finds the server set while the socket is
\* still unset; the call that does is the one that panics (OscSendServer).
C15_SocketStoredBeforeUse ==
    \A k \in 1..Len(ev.sends) : ~ev.sends[k].panicked

(***************************************************************************)
(* Properties of the loop over the command mappings (Spec).                *)
(***************************************************************************)
\* The indices of the mappings matching the topic, in table order.
RECURSIVE MatchingFrom(_, _)
MatchingFrom(i, topic) ==
    IF i > Len(r.Commands) THEN <<>>
    ELSE IF CommandMatches(r.Commands[i], topic)
    THEN <<i>> \o MatchingFrom(i + 1, topic)
    ELSE MatchingFrom(i + 1, topic)

\* The mappings that dispatched, in the order of their sends.
RECURSIVE CommandSendsFrom(_)
CommandSendsFrom(k) ==
    IF k > Len(ev.sends) THEN <<>>
    ELSE IF ev.sends[k].src = "command"
    THEN <<ev.sends[k].idx>> \o CommandSendsFrom(k + 1)
    ELSE CommandSendsFrom(k + 1)

\* C16 as stated: for a payload that is empty or decodes, the mappings that
\* dispatch are exactly the matching ones, once each in table order, and a
\* send failure of one is logged and does not stop the later ones.
C16_AllMatchingMappingsFire ==
    (EvMqtt /\ PayloadUsable(ev.payload)) =>
        /\ CommandSendsFrom(1) = MatchingFrom(1, ev.topic)
        /\ \A k \in SendsFrom("command") :
              ev.sends[k].failed # "none" => HasErrorLog("Send Error")

(***************************************************************************)
(* Properties of the subscription tickers (Spec).                          *)
(***************************************************************************)
EvTick == ev.op = "tick"

\* C17: every tick of a subscription (its interval is positive) makes one
\* OscSend call with the entry's command and payload, and a send that fails
\* leaves the process running and the ticker ticking, so that its next tick
\* sends again; no tick touches the ticker of another entry.
C17_TickerSurvivesFailure ==
    EvTick =>
        /\ r.OscSubscriptions[ev.idx].Interval > 0
        /\ Len(ev.sends) = 1
        /\ ev.sends[1].pkt.kind = "message"
        /\ ev.sends[1].pkt.Address = r.OscSubscriptions[ev.idx].Command
        /\ ev.sends[1].pkt.Arguments = r.OscSubscriptions[ev.idx].Payload
        /\ ev.sends[1].failed # "none" =>
              /\ proc = "running"
              /\ tickers[ev.idx] = "ticking"

C17_Witness ==
    /\ EvTick
    /\ Len(r.OscSubscriptions) = 2 /\ ev.idx = 2
    /\ ev.sends[1].failed = "write" /\ ev.sends[1].ret = "write"
    /\ HasErrorLog("Send Error")
    /\ tickers = <<"ticking", "ticking">>
    /\ proc = "running"

\* ReadConfig has run over the list and validation let it through.
ConfigLoaded == appPc \in {"start", "starting", "spin"} \/ started # <<>>

\* C18: after loading, a relay with a bind address and bind port 0 has its
\* OSC port as bind port and every other relay has the bind port of the file,
\* nothing else of a relay is changed, and the bind ports so derived are
\* pairwise distinct: two relays with bind addresses, bind port 0 and the
\* same OSC port have ended the process.
C18_BindPortDerivation ==
    /\ ConfigLoaded =>
          /\ Len(relays) = Len(loaded)
          /\ \A i \in 1..Len(loaded) :
                /\ relays[i] = [loaded[i] EXCEPT !.OscBindPort = relays[i].OscBindPort]
                /\ relays[i].OscBindPort =
                      IF loaded[i].OscBindAddr # "" /\ loaded[i].OscBindPort = 0
                      THEN loaded[i].OscPort
                      ELSE loaded[i].OscBindPort
          /\ \A i, b \in 1..Len(relays) :
                i # b => relays[i].OscBindPort # relays[b].OscBindPort
    /\ (/\ appPc # "read"
        /\ \E i, b \in 1..Len(loaded) :
              /\ i # b
              /\ loaded[i].OscBindAddr # "" /\ loaded[i].OscBindPort = 0
              /\ loaded[b].OscBindAddr # "" /\ loaded[b].OscBindPort = 0
              /\ loaded[i].OscPort = loaded[b].OscPort)
       => appPc = "fatal" /\ started = <<>>

C18_Witness ==
    /\ appPc = "spin"
    /\ Len(loaded) = 2
    /\ loaded[1].OscBindAddr = "l" /\ loaded[1].OscBindPort = 0
    /\ loaded[1].OscPort = 7 /\ relays[1].OscBindPort = 7
    /\ loaded[2].OscBindAddr = "" /\ loaded[2].OscBindPort = 8
    /\ relays[2].OscBindPort = 8

\* A relay that binds a socket in Start.
BindsSocket(relay) == relay.OscBindAddr # "" /\ EffectiveBindPort(relay) # 0

\* A list with broker host and port, topic and OSC host in every relay, with
\* pairwise distinct topics and with pairwise distinct bind ports among the
\* relays that bind a socket.
WellFormed(rs) ==
    /\ Len(rs) > 0
    /\ \A i \in 1..Len(rs) :
          /\ rs[i].MqttHost # "" /\ rs[i].MqttPort # 0
          /\ rs[i].MqttTopic # <<>>
          /\ rs[i].OscHost # ""
    /\ \A i, b \in 1..Len(rs) :
          i # b =>
             /\ rs[i].MqttTopic # rs[b].MqttTopic
             /\ (BindsSocket(rs[i]) /\ BindsSocket(rs[b]))
                   => EffectiveBindPort(rs[i]) # EffectiveBindPort(rs[b])

\* C19: once ReadConfig has run over a well-formed list, validation has found
\* no violation; two relays without bind address and bind port and with
\* distinct topics are such a list.
C19_WellFormedAccepted ==
    (appPc # "read" /\ WellFormed(loaded))
        => ~Validate(DeriveBindPorts(loaded)).fatal

\* C20: every relay whose Start has run past the broker connection either
\* sets up the OSC server (bind address and bind port not 0) or has an OSC
\* host and an OSC port not 0 to send to.
C20_ValidatedRelayHasTransport ==
    \A i \in 1..Len(started) :
        \/ ~started[i].ran
        \/ started[i].server
        \/ relays[i].OscHost # "" /\ relays[i].OscPort # 0

(***************************************************************************)
(* Properties of the generic send and bundle send branches (Spec).         *)
(***************************************************************************)
\* C21: every message the generic send branch hands to OscSend has an
\* address that begins with "/", and the branch sends only for the topic
\* <namespace>/send or a topic below <namespace>/send/, whatever subscription
\* delivered the message.
C21_GenericSendRooted ==
    EvMqtt =>
        \A k \in SendsFrom("send") :
            /\ HasPrefix(ev.sends[k].pkt.Address, Slash)
            /\ ev.topic = SendTopic \/ HasPrefix(ev.topic, SendTopic \o Slash)

\* C22: a message on <namespace>/bundle/send whose payload decodes as a
\* bundle, null entries in its messages or bundles lists included, makes the
\* handler send one bundle or log an error, and the handler returns with the
\* relay running.
C22_BundleSendNeverCrashes ==
    (EvMqtt /\ ev.topic = BundleSendTopic /\ ~JsonUnmarshalBundle(ev.payload).err)
        => /\ ~ev.panicked
           /\ proc = "running"
           /\ Cardinality(SendsFrom("bundle")) = 1 \/ AnyErrorLog

====
